---- MODULE Spec2Model ----
(***************************************************************************)
(* Fill ledger and metrics derivation of the ace-trading plugin.           *)
(*                                                                         *)
(* JavaScript values are modelled as records with a kind field k:          *)
(*   numbers are exact rationals n/d in lowest terms (d > 0), "nan" is    *)
(*   the non-finite number, "str" a non-numeric string, "undefined" and   *)
(*   "null" the two absent values.  Instants are whole seconds relative   *)
(*   to the Unix epoch; an ISO string is [k |-> "iso", ms |-> instant].   *)
(* Floating point is modelled by exact rational arithmetic, and round()    *)
(* keeps ModelPlaces decimals where the code keeps 10 (TLC integers are    *)
(* 32 bits wide).                                                          *)
(***************************************************************************)
EXTENDS Integers, Sequences, FiniteSets, Bags, TLC

\* ------------------------------------------------------------------ bounds
ModelPlaces == 2
MaxFills == 2
MaxClock == 2
MaxEdits == 1
MaxAmount == 2
MaxPrice == 3
MaxLedger == 3
MaxTasks == 2

\* ------------------------------------------------------- numbers (helpers)
Abs(x) == IF x < 0 THEN -x ELSE x

RECURSIVE Gcd(_, _)
Gcd(a, b) == IF b = 0 THEN a ELSE Gcd(b, a % b)

RECURSIVE Pow10(_)
Pow10(k) == IF k = 0 THEN 1 ELSE 10 * Pow10(k - 1)

Undefined == [k |-> "undefined", n |-> 0, d |-> 1]
Null == [k |-> "null", n |-> 0, d |-> 1]
NaN == [k |-> "nan", n |-> 0, d |-> 1]
NonNumericString == [k |-> "str", n |-> 0, d |-> 1]

\* the number n/d, in lowest terms
Num(n, d) ==
    LET g == Gcd(Abs(n), Abs(d))
        s == IF d < 0 THEN -1 ELSE 1
    IN  [k |-> "num", n |-> (s * n) \div g, d |-> (s * d) \div g]

Int2Num(i) == [k |-> "num", n |-> i, d |-> 1]
Zero == Int2Num(0)

IsNum(x) == x.k = "num"
IsNullish(x) == x.k \in {"undefined", "null"}

\* JavaScript arithmetic on numbers: a non-finite operand gives a non-finite result
jsAdd(x, y) ==
    IF IsNum(x) /\ IsNum(y)
    THEN LET g == Gcd(x.d, y.d)
         IN  Num(x.n * (y.d \div g) + y.n * (x.d \div g), (x.d \div g) * y.d)
    ELSE NaN
jsMul(x, y) ==
    IF IsNum(x) /\ IsNum(y)
    THEN LET g == Gcd(Abs(x.n), y.d)
             h == Gcd(Abs(y.n), x.d)
         IN  Num((x.n \div g) * (y.n \div h), (x.d \div h) * (y.d \div g))
    ELSE NaN
jsSub(x, y) == IF IsNum(x) /\ IsNum(y) THEN jsAdd(x, [y EXCEPT !.n = -y.n]) ELSE NaN
jsDiv(x, y) == IF IsNum(x) /\ IsNum(y) /\ y.n # 0 THEN jsMul(x, Num(y.d, y.n)) ELSE NaN
jsAbs(x) == IF IsNum(x) THEN [x EXCEPT !.n = Abs(x.n)] ELSE NaN
jsNeg(x) == IF IsNum(x) THEN [x EXCEPT !.n = -x.n] ELSE NaN
\* x > y and x > 0 in JavaScript: false when an operand is NaN
jsGt(x, y) == IsNum(x) /\ IsNum(y) /\ x.n * y.d > y.n * x.d
jsLt(x, y) == jsGt(y, x)
\* truthiness of a number: neither 0 nor NaN
jsTruthyNum(x) == IsNum(x) /\ x.n # 0

\* Number(v || 0) for a field value v
NumberOrZero(v) ==
    CASE v.k = "num" -> v
      [] v.k = "str" -> NaN
      [] OTHER -> Zero

\* Number(v) for v != null
Number(v) ==
    CASE v.k = "num" -> v
      [] v.k = "null" -> Zero
      [] OTHER -> NaN

\* round(x, places = 10): null for null, undefined and non-finite x, else
\* Math.round(x * p) / p, where Math.round is floor(y + 1/2)
round(x) ==
    IF ~IsNum(x) THEN Null
    ELSE LET p == Pow10(ModelPlaces)
             g == Gcd(p, x.d)
         IN  Num((2 * x.n * (p \div g) + (x.d \div g)) \div (2 * (x.d \div g)), p)

\* ------------------------------------------------------------ time values
\* the ISO-8601 string of instant ms, a string no Date can parse, no value
Iso(ms) == [k |-> "iso", ms |-> ms]
BadTime == [k |-> "str", ms |-> 0]
NoTime == [k |-> "undefined", ms |-> 0]
NullTime == [k |-> "null", ms |-> 0]
EmptyTime == [k |-> "empty", ms |-> 0]
SecondsPerMinute == 60

\* a variant that writes the seconds of the instant
toIsoUtcWithSeconds(d) == Iso(d)
\* toIsoUtc(d): the instant's UTC date, hours and minutes, seconds written as 00
toIsoUtc(d) == Iso(d - (d % SecondsPerMinute))

\* d.toISOString(): the full instant
toISOString(d) == Iso(d)

\* Date.parse(t || ''): the instant, or NaN
DateParse(t) == IF t.k = "iso" THEN Int2Num(t.ms) ELSE NaN

\* truthiness of a string-valued field (closed_at, t)
jsTruthyTime(t) == t.k \in {"iso", "str"}

\* ------------------------------------------------------------- time zones
\* A Date is an instant in whole seconds, or null. A text typed as a time is
\* a wall-clock reading 'YYYY-MM-DD HH:MM' (l: the instant that reading names
\* when taken as UTC), an empty text, a text in another format that Date
\* parses to an instant, or a text nothing parses.
DateAt(s) == [k |-> "date", s |-> s]
NullDate == [k |-> "null", s |-> 0]
Reading(l) == [k |-> "parts", l |-> l]
EmptyText == [k |-> "empty", l |-> 0]
OtherText(s) == [k |-> "other", l |-> s]
BadText == [k |-> "bad", l |-> 0]
SecondsPerHour == 3600

\* A zone as Intl knows it: its name and its offset from UTC in seconds as a
\* function of the instant, here offset a before instant t1, b from t1 up to
\* t2, c from t2 on.
Zone(name, a, t1, b, t2, c) == [name |-> name, a |-> a, t1 |-> t1, b |-> b, t2 |-> t2, c |-> c]
offsetAt(zone, s) == IF s < zone.t1 THEN zone.a ELSE IF s < zone.t2 THEN zone.b ELSE zone.c
UTC == Zone("UTC", 0, 0, 0, 0, 0)

\* the transitions of the model's year: clocks of the northern zones go
\* forward at SpringAt (New York, 07:00 UTC) and back at AutumnAt (06:00 UTC);
\* Sydney's go back at SpringAt - 15 h and forward at AutumnAt + 10 h
SpringAt == 31 * SecondsPerHour
AutumnAt == 78 * SecondsPerHour
KnownZones ==
    { UTC,
      Zone("Asia/Tokyo", 9 * SecondsPerHour, 0, 9 * SecondsPerHour, 0, 9 * SecondsPerHour),
      Zone("America/New_York", -5 * SecondsPerHour, SpringAt, -4 * SecondsPerHour, AutumnAt, -5 * SecondsPerHour),
      Zone("Europe/London", 0, SpringAt - 6 * SecondsPerHour, SecondsPerHour, AutumnAt - 5 * SecondsPerHour, 0),
      Zone("Australia/Sydney", 11 * SecondsPerHour, SpringAt - 15 * SecondsPerHour, 10 * SecondsPerHour,
           AutumnAt + 10 * SecondsPerHour, 11 * SecondsPerHour) }

\* getTimeZoneFormatter(timeZone): the formatter of timeZone || 'UTC', and
\* the UTC formatter when Intl refuses the name
getTimeZoneFormatter(timeZone) ==
    IF \E z \in KnownZones : z.name = timeZone
    THEN CHOOSE z \in KnownZones : z.name = timeZone
    ELSE UTC

\* the wall-clock fields formatter.formatToParts(date) gives, as the instant
\* those fields name when taken as UTC
formatToParts(zone, s) == s + offsetAt(zone, s)

\* buildUtcDateFromParts(parts): Date.UTC of the fields, seconds 0
buildUtcDateFromParts(parts) == DateAt(parts.l)

\* zonedPartsToUtc(parts, timeZone): the candidate is the reading taken as
\* UTC; it is moved by the difference between itself and its own reading in
\* the zone
zonedPartsToUtc(parts, timeZone) ==
    LET candidate == buildUtcDateFromParts(parts)
        zonedDate == DateAt(formatToParts(getTimeZoneFormatter(timeZone), candidate.s))
        diff == candidate.s - zonedDate.s
    IN  DateAt(candidate.s + diff)

\* formatDateTimeInZone(date, timeZone): 'YYYY-MM-DD HH:MM' of the instant in
\* the zone, seconds dropped
formatDateTimeInZone(date, timeZone) ==
    LET local == formatToParts(getTimeZoneFormatter(timeZone), date.s)
    IN  Reading(local - (local % SecondsPerMinute))

\* toUtcDateFromInput(input, fallbackDate, timeZone); timeZone "" is a zone
\* not given
toUtcDateFromInput(input, fallbackDate, timeZone) ==
    IF input.k = "empty" THEN fallbackDate
    ELSE IF input.k = "parts"
         THEN IF timeZone # "" /\ timeZone # "UTC" THEN zonedPartsToUtc(input, timeZone)
              ELSE buildUtcDateFromParts(input)
    ELSE IF input.k = "other" THEN DateAt(input.l)
    ELSE fallbackDate

\* ------------------------------------------------------------------ fills
\* An element of the fills array: an object with the Fill fields (side "" is a
\* missing side), null/undefined ("null"), or a primitive ("prim").
Fill(side, t, base, quote, price) ==
    [k |-> "obj", side |-> side, t |-> t, base |-> base, quote |-> quote, price |-> price]
NullElement == [k |-> "null", side |-> "", t |-> NoTime, base |-> Undefined, quote |-> Undefined, price |-> Undefined]
PrimitiveElement == [k |-> "prim", side |-> "", t |-> NoTime, base |-> Undefined, quote |-> Undefined, price |-> Undefined]

\* f?.side, f?.base, f?.quote: undefined unless f is an object
sideOf(f) == IF f.k = "obj" THEN f.side ELSE ""
baseOf(f) == IF f.k = "obj" THEN f.base ELSE Undefined
quoteOf(f) == IF f.k = "obj" THEN f.quote ELSE Undefined

\* a variant that takes every trade for a long
expectedQuoteSignOfLong(dir, side) == IF side = "in" THEN -1 ELSE 1
\* expectedQuoteSign(dir, side)
expectedQuoteSign(dir, side) == IF side = "in" THEN -dir ELSE dir

\* Number(x) || 0 and x ?? 0
orZero(x) == IF jsTruthyNum(x) THEN x ELSE Zero
nullToZero(x) == IF IsNullish(x) THEN Zero ELSE x

\* a variant that signs base by side alone, as for a long
baseOfFillLongOnly(dir, side, amount) ==
    nullToZero(round(jsMul(Int2Num(IF side = "in" THEN 1 ELSE -1), jsAbs(orZero(Number(amount))))))
\* the base of buildFill: round(baseSign * |Number(amount) || 0|) ?? 0
baseOfFill(dir, side, amount) ==
    nullToZero(round(jsMul(Int2Num(dir * (IF side = "in" THEN 1 ELSE -1)), jsAbs(orZero(Number(amount))))))

\* a variant that takes the quote itself for the price derived from a quote
buildFillUndivided(dir, side, amount, price, quote, when) ==
    LET base == baseOfFill(dir, side, amount)
        quote0 == IF ~IsNullish(quote) THEN Number(quote) ELSE Null
        price0 == IF ~IsNullish(price) THEN Number(price) ELSE Null
        byPrice == ~IsNullish(price0) /\ jsGt(price0, Zero)
        byQuote == ~byPrice /\ ~IsNullish(quote0) /\ quote0 # Zero
        quote1 == IF byPrice THEN round(jsMul(jsNeg(base), price0)) ELSE quote0
        price1 == IF byQuote THEN round(jsAbs(quote0)) ELSE price0
    IN  Fill(side, toIsoUtc(when), base, nullToZero(round(quote1)), nullToZero(round(price1)))
\* buildFill({dir, side, amount, price, quote, when}); note and txs, which no
\* computation reads, are left out of the model's fills
buildFill(dir, side, amount, price, quote, when) ==
    LET base == baseOfFill(dir, side, amount)
        quote0 == IF ~IsNullish(quote) THEN Number(quote) ELSE Null
        price0 == IF ~IsNullish(price) THEN Number(price) ELSE Null
        byPrice == ~IsNullish(price0) /\ jsGt(price0, Zero)
        byQuote == ~byPrice /\ ~IsNullish(quote0) /\ quote0 # Zero
        quote1 == IF byPrice THEN round(jsMul(jsNeg(base), price0)) ELSE quote0
        price1 == IF byQuote
                  THEN round(jsDiv(jsAbs(quote0), jsAbs(IF jsTruthyNum(base) THEN base ELSE Int2Num(1))))
                  ELSE price0
    IN  Fill(side, toIsoUtc(when), base, nullToZero(round(quote1)), nullToZero(round(price1)))

\* the fills field of a record: an array, absent, or some other value
FillsArray(items) == [k |-> "array", items |-> items]
FillsAbsent == [k |-> "undefined", items |-> << >>]
FillsNotArray == [k |-> "other", items |-> << >>]

\* ---------------------------------------------------------------- metrics
Metrics(status, position, avg_entry, avg_exit, realized_pnl, r_multiple, win, last_fill_at, computed_at) ==
    [status |-> status, position |-> position, avg_entry |-> avg_entry, avg_exit |-> avg_exit,
     realized_pnl |-> realized_pnl, r_multiple |-> r_multiple, win |-> win,
     last_fill_at |-> last_fill_at, computed_at |-> computed_at]

\* a variant of the empty result that carries last_fill_at: null
OpenMetricsWithLastFill == Metrics("open", Null, Null, Null, Null, Null, "null", NullTime, NoTime)
\* the value returned for an empty ledger: no last_fill_at, no computed_at
OpenMetrics == Metrics("open", Null, Null, Null, Null, Null, "null", NoTime, NoTime)

\* a call's outcome: a returned Metrics, or a thrown TypeError
Returned(m) == [threw |-> FALSE, m |-> m]
Thrown == [threw |-> TRUE, m |-> OpenMetrics]

\* the accumulation loop over the fills
RECURSIVE accumulate(_, _)
accumulate(fills, acc) ==
    IF fills = << >> THEN acc
    ELSE LET f == Head(fills)
             s == IF sideOf(f) = "" THEN "in" ELSE sideOf(f)
             b == NumberOrZero(baseOf(f))
             q == NumberOrZero(quoteOf(f))
         IN  accumulate(Tail(fills),
                IF s = "in"
                THEN [acc EXCEPT !.inB = jsAdd(@, b), !.inQ = jsAdd(@, q)]
                ELSE [acc EXCEPT !.outB = jsAdd(@, b), !.outQ = jsAdd(@, q)])

Sums(fills) == accumulate(fills, [inB |-> Zero, inQ |-> Zero, outB |-> Zero, outQ |-> Zero])

\* fills.reduce((mx, f) => ..., 0): the reduction reads f.t of every element
RECURSIVE reduceLastFill(_, _)
reduceLastFill(fills, mx) ==
    IF fills = << >> THEN mx
    ELSE LET t == DateParse(Head(fills).t)
         IN  reduceLastFill(Tail(fills), IF IsNum(t) /\ t.n > mx THEN t.n ELSE mx)

\* a variant that ignores the explicit action
directionInferredOnly(action, inB) == IF jsLt(inB, Zero) THEN -1 ELSE 1
\* dir of computeMetrics: the explicit action, else the sign of inB
directionOf(action, inB) ==
    IF action = "short" THEN -1
    ELSE IF action = "long" THEN 1
    ELSE IF jsLt(inB, Zero) THEN -1 ELSE 1

\* variants: closed_at ignored; closed_at needed as well as a flat position;
\* a stored 'closed' kept; any stored snapshot read as closed
statusIgnoringClosedAt(position, fm) ==
    IF IsNum(position) /\ position.n = 0 THEN "closed" ELSE "open"
statusOnlyWhenFlat(position, fm) ==
    IF (IsNum(position) /\ position.n = 0) /\ jsTruthyTime(fm.closed_at) THEN "closed" ELSE "open"
statusSticky(position, fm) ==
    IF (IsNum(position) /\ position.n = 0) \/ jsTruthyTime(fm.closed_at)
       \/ (fm.metrics.k = "obj" /\ fm.metrics.m.status = "closed")
    THEN "closed" ELSE "open"
statusClosedOnceStored(position, fm) ==
    IF (IsNum(position) /\ position.n = 0) \/ jsTruthyTime(fm.closed_at) \/ fm.metrics.k = "obj"
    THEN "closed" ELSE "open"
\* a variant in which a snapshot stored as open stays open
statusOpenOnceStored(position, fm) ==
    IF fm.metrics.k = "obj" /\ fm.metrics.m.status = "open" THEN "open"
    ELSE IF (IsNum(position) /\ position.n = 0) \/ jsTruthyTime(fm.closed_at) THEN "closed" ELSE "open"
\* status of computeMetrics: (position === 0 || !!fm.closed_at)
statusOf(position, fm) ==
    IF (IsNum(position) /\ position.n = 0) \/ jsTruthyTime(fm.closed_at) THEN "closed" ELSE "open"

\* a variant that divides by the risk per unit alone
rMultiplePerUnit(initial_stop, avgEntry, exitedUnits, realized) ==
    IF ~IsNullish(initial_stop) /\ ~IsNullish(avgEntry) /\ jsTruthyNum(exitedUnits)
    THEN LET rpu == jsAbs(jsSub(avgEntry, Number(initial_stop)))
         IN  IF jsGt(rpu, Zero)
             THEN round(jsDiv(IF IsNullish(realized) THEN Zero ELSE realized, rpu))
             ELSE Null
    ELSE Null
\* rMultiple of computeMetrics: round((realized ?? 0) / (rpu * exitedUnits))
rMultipleOf(initial_stop, avgEntry, exitedUnits, realized) ==
    IF ~IsNullish(initial_stop) /\ ~IsNullish(avgEntry) /\ jsTruthyNum(exitedUnits)
    THEN LET rpu == jsAbs(jsSub(avgEntry, Number(initial_stop)))
         IN  IF jsGt(rpu, Zero)
             THEN round(jsDiv(IF IsNullish(realized) THEN Zero ELSE realized,
                              jsMul(rpu, exitedUnits)))
             ELSE Null
    ELSE Null

\* computeMetrics(fm), called at instant now
computeMetrics(fm, now) ==
    LET fills == IF fm.fills.k = "array" THEN fm.fills.items ELSE << >>
    IN  IF Len(fills) = 0 THEN Returned(OpenMetrics)
        ELSE
        LET a == Sums(fills)
            avgEntry == IF jsTruthyNum(a.inB) THEN jsDiv(jsAbs(a.inQ), jsAbs(a.inB)) ELSE Null
            avgExit == IF jsTruthyNum(a.outB) THEN jsDiv(jsAbs(a.outQ), jsAbs(a.outB)) ELSE Null
            position == round(jsAdd(a.inB, a.outB))
            exitedUnits == jsAbs(a.outB)
            realized ==
                IF jsTruthyNum(exitedUnits) /\ jsTruthyNum(a.inB)
                THEN LET directionalDiff == jsSub(jsAbs(a.outQ), jsMul(avgEntry, exitedUnits))
                         dir == directionOf(fm.action, a.inB)
                     IN  round(jsMul(Int2Num(dir), directionalDiff))
                ELSE Null
            status == statusOf(position, fm)
            rMultiple == rMultipleOf(fm.initial_stop, avgEntry, exitedUnits, realized)
            lastFillAt == reduceLastFill(fills, 0)
            win == IF IsNullish(realized) THEN "null"
                   ELSE IF jsGt(realized, Zero) THEN "true" ELSE "false"
        IN  IF \E i \in 1..Len(fills) : fills[i].k = "null"
            THEN Thrown
            ELSE Returned(Metrics(status, position, round(avgEntry), round(avgExit), realized,
                                  rMultiple, win,
                                  IF lastFillAt # 0 THEN toISOString(lastFillAt) ELSE NullTime,
                                  toISOString(now)))

\* a variant that signs realized by the direction, as the one in use does
computeMetricsDirected(fm, now) == computeMetrics(fm, now)
\* computeMetrics(fm) of the historical copy of the helpers, called at
\* instant now: realized is round(directionalDiff), no direction is derived
computeMetricsHistorical(fm, now) ==
    LET fills == IF fm.fills.k = "array" THEN fm.fills.items ELSE << >>
    IN  IF Len(fills) = 0 THEN Returned(OpenMetrics)
        ELSE
        LET a == Sums(fills)
            avgEntry == IF jsTruthyNum(a.inB) THEN jsDiv(jsAbs(a.inQ), jsAbs(a.inB)) ELSE Null
            avgExit == IF jsTruthyNum(a.outB) THEN jsDiv(jsAbs(a.outQ), jsAbs(a.outB)) ELSE Null
            position == round(jsAdd(a.inB, a.outB))
            exitedUnits == jsAbs(a.outB)
            realized ==
                IF jsTruthyNum(exitedUnits) /\ jsTruthyNum(a.inB)
                THEN round(jsSub(jsAbs(a.outQ), jsMul(avgEntry, exitedUnits)))
                ELSE Null
            status == statusOf(position, fm)
            rMultiple == rMultipleOf(fm.initial_stop, avgEntry, exitedUnits, realized)
            lastFillAt == reduceLastFill(fills, 0)
            win == IF IsNullish(realized) THEN "null"
                   ELSE IF jsGt(realized, Zero) THEN "true" ELSE "false"
        IN  IF \E i \in 1..Len(fills) : fills[i].k = "null"
            THEN Thrown
            ELSE Returned(Metrics(status, position, round(avgEntry), round(avgExit), realized,
                                  rMultiple, win,
                                  IF lastFillAt # 0 THEN toISOString(lastFillAt) ELSE NullTime,
                                  toISOString(now)))

\* a Metrics value without its computed_at
IgnoringComputedAt(m) == [m EXCEPT !.computed_at = NoTime]

\* ------------------------------------------------------------------ state
VARIABLES
    fm,       \* the trade record (frontmatter) computeMetrics is applied to
    now,      \* the clock: the instant of the next call
    out,      \* outcome of the latest computeMetrics call
    prev,     \* outcome of the call before it
    since,    \* what happened to the record since the latest call
    between,  \* what happened to the record between the two calls
    args,     \* the quantities a ledger is built from: dir, a, p, b, q
    tasks,    \* the plugin's open dialogs and unfinished handlers, a bag
    built,    \* the last buildFill call: its options and the Fill returned
    input,    \* the raw values of the last dialog submitted
    conv,     \* the last conversion of a typed time: text, zone, Date returned
    pick,     \* a picker opened by pickFromModal, and the promise it returned
    hist      \* outcome of the historical computeMetrics on the record

vars == <<fm, now, out, prev, since, between, args, tasks, built, input, conv, pick, hist>>
harness == <<out, prev, since, between, args, built, conv, pick, hist>>

NoCall == [threw |-> FALSE, m |-> OpenMetrics, called |-> FALSE]
Called(r) == [threw |-> r.threw, m |-> r.m, called |-> TRUE]

NoMetrics == [k |-> "undefined", m |-> OpenMetrics]
StoredMetrics(m) == [k |-> "obj", m |-> m]

\* a TradeFrontmatter value
Frontmatter(id, timestamp, pair, account, action, initial_stop, closed_at, fills, metrics) ==
    [id |-> id, timestamp |-> timestamp, pair |-> pair, account |-> account,
     action |-> action, initial_stop |-> initial_stop, closed_at |-> closed_at,
     fills |-> fills, metrics |-> metrics]

\* --------------------------------------------- inputs of the metrics engine
\* Sample array elements: long and short entries and exits at several prices,
\* with instants after, at and before the epoch, and malformed elements.
FillSamples ==
    { Fill("in", Iso(60), Int2Num(2), Int2Num(-4), Int2Num(2)),
      Fill("in", Iso(60), Int2Num(1), Int2Num(-1), Int2Num(1)),
      Fill("out", Iso(120), Int2Num(-2), Int2Num(6), Int2Num(3)),
      Fill("out", Iso(0), Int2Num(-1), Int2Num(1), Int2Num(1)),
      Fill("in", Iso(-60), Int2Num(-2), Int2Num(4), Int2Num(2)),
      Fill("out", BadTime, Int2Num(2), Int2Num(-2), Int2Num(1)),
      Fill("out", Iso(60), Int2Num(1), Int2Num(-3), Int2Num(3)),
      Fill("", NoTime, NonNumericString, Undefined, Null),
      Fill("out", Iso(60), Int2Num(3), NonNumericString, Zero),
      Fill("sell", NullTime, Int2Num(-1), Int2Num(2), Int2Num(2)),
      NullElement,
      PrimitiveElement }

RECURSIVE SeqsUpTo(_, _)
SeqsUpTo(S, n) ==
    IF n = 0 THEN { << >> }
    ELSE LET shorter == SeqsUpTo(S, n - 1)
         IN  shorter \cup { Append(q, x) : q \in shorter, x \in S }

FillsSamples == { FillsAbsent, FillsNotArray } \cup { FillsArray(q) : q \in SeqsUpTo(FillSamples, MaxFills) }
ActionSamples == { "", "long", "short", "LONG" }
StopSamples == { Undefined, Int2Num(1), Int2Num(2) }
ClosedAtSamples == { NoTime, EmptyTime, Iso(120) }

\* the fields computeMetrics has no use for, with a second value for each
OtherFields == { "id", "timestamp", "pair", "account", "metrics" }
StaleMetrics == StoredMetrics(Metrics("closed", Zero, Int2Num(7), Int2Num(7), Zero, Null, "false", Iso(0), Iso(0)))
FirstValue == [id |-> "T-1", timestamp |-> Iso(0), pair |-> "BTC/USDT", account |-> "", metrics |-> NoMetrics]
SecondValue == [id |-> "T-2", timestamp |-> Iso(60), pair |-> "ETH/USDT", account |-> "main", metrics |-> StaleMetrics]

InputRecord(a, s, c, f) ==
    Frontmatter(FirstValue.id, FirstValue.timestamp, FirstValue.pair, FirstValue.account,
                a, s, c, f, FirstValue.metrics)

\* no buildFill call yet, and a call with its options and result
BuildOpts(dir, side, amount, price, quote, when) ==
    [dir |-> dir, side |-> side, amount |-> amount, price |-> price, quote |-> quote, when |-> when]
NoBuild ==
    [called |-> FALSE, rebuilt |-> FALSE, opts |-> BuildOpts(1, "in", Zero, Undefined, Undefined, 0),
     fill |-> NullElement, first |-> NullElement]
\* no dialog submitted yet, and a submission: the dialog, the values typed in
\* (amount, quote and side, or price or quote by mode)
Submitted(dialog, side, mode, amount, price, quote) ==
    [dialog |-> dialog, side |-> side, mode |-> mode, amount |-> amount, price |-> price,
     quote |-> quote]
NoInput == Submitted("", "", "", Zero, Zero, Zero)
NoArgs == [dir |-> 1, a |-> Zero, p |-> Zero, b |-> Zero, q |-> Zero]
\* no conversion yet, and a conversion with what it was given and returned
\* (shown: the Date formatted in the zone again; iso: its canonical string)
Converted(text, zone, fallback, date) ==
    [called |-> TRUE, text |-> text, zone |-> zone, fallback |-> fallback, date |-> date,
     shown |-> EmptyText, iso |-> NoTime]
NoConv ==
    [called |-> FALSE, text |-> EmptyText, zone |-> "", fallback |-> NullDate, date |-> NullDate,
     shown |-> EmptyText, iso |-> NoTime]
\* no picker opened, and a picker handed to pickFromModal: whether it is open,
\* the setTimeout callbacks pending, the closure's done flag, the calls of
\* resolve made, the promise's value ("pending" until it is resolved, "null",
\* or the item), and the events so far ("close", "timer", or the item chosen)
Picker(open, timers, done, resolves, value, events) ==
    [k |-> "picker", open |-> open, timers |-> timers, done |-> done, resolves |-> resolves,
     value |-> value, events |-> events]
NoPick == [k |-> "none", open |-> FALSE, timers |-> 0, done |-> FALSE, resolves |-> 0,
           value |-> "pending", events |-> << >>]

NoCalls ==
    /\ tasks = EmptyBag
    /\ built = NoBuild
    /\ input = NoInput
    /\ conv = NoConv
    /\ pick = NoPick
    /\ hist = NoCall
    /\ args = NoArgs
    /\ now = 1
    /\ out = NoCall
    /\ prev = NoCall
    /\ since = "nothing"
    /\ between = "nothing"

\* ------------------------------------ specification: one record, one engine
InitMetrics ==
    /\ fm \in { InputRecord(a, s, c, f) :
                    a \in ActionSamples, s \in StopSamples, c \in ClosedAtSamples, f \in FillsSamples }
    /\ NoCalls

\* a call of computeMetrics on the record
Compute ==
    /\ now <= MaxClock
    /\ out' = Called(computeMetrics(fm, now))
    /\ now' = now + 1
    /\ UNCHANGED <<fm, prev, since, between, args, conv, pick, hist, tasks, built, input>>

NextMetrics == Compute

SpecMetrics == InitMetrics /\ [][NextMetrics]_vars

\* --------------------------- specification: two calls and what lies between
TwiceFillSamples ==
    { Fill("in", Iso(60), Int2Num(2), Int2Num(-4), Int2Num(2)),
      Fill("out", Iso(120), Int2Num(-1), Int2Num(3), Int2Num(3)),
      Fill("", NoTime, NonNumericString, Undefined, Null),
      NullElement }

InitTwice ==
    /\ fm \in { InputRecord(a, s, c, f) :
                    a \in { "", "short" }, s \in { Undefined, Int2Num(1) },
                    c \in { NoTime, Iso(120) },
                    f \in { FillsAbsent } \cup { FillsArray(q) : q \in SeqsUpTo(TwiceFillSamples, MaxFills) } }
    /\ NoCalls

Call ==
    /\ now <= MaxClock
    /\ out' = Called(computeMetrics(fm, now))
    /\ prev' = out
    /\ now' = now + 1
    /\ between' = since
    /\ since' = "nothing"
    /\ UNCHANGED <<fm, args, conv, pick, hist, tasks, built, input>>

\* a variant that computes over the ledger as it was before the last push
persistMetricsBeforeLastFill(fw, t) ==
    LET seen == IF fw.fills.k = "array" /\ Len(fw.fills.items) > 1
                THEN [fw EXCEPT !.fills = FillsArray(SubSeq(@.items, 1, Len(@.items) - 1))]
                ELSE fw
        r == computeMetrics(seen, t)
    IN  IF r.threw THEN fw ELSE [fw EXCEPT !.metrics = StoredMetrics(r.m)]
\* the frontmatter callback of persistMetrics: fw.metrics = computeMetrics(fw);
\* a throw inside the callback leaves the record as it was
persistMetricsOn(fw, t) ==
    LET r == computeMetrics(fw, t)
    IN  IF r.threw THEN fw ELSE [fw EXCEPT !.metrics = StoredMetrics(r.m)]

Persist ==
    /\ now <= MaxClock
    /\ out' = Called(computeMetrics(fm, now))
    /\ fm' = persistMetricsOn(fm, now)
    /\ prev' = out
    /\ now' = now + 1
    /\ between' = since
    /\ since' = IF out'.threw THEN "nothing" ELSE "stored"
    /\ UNCHANGED <<args, conv, pick, hist, tasks, built, input>>

\* another record that agrees on fills, action, initial_stop and closed_at
EditOther ==
    /\ Cardinality({ f \in OtherFields \ {"metrics"} : fm[f] # FirstValue[f] }) < MaxEdits
    /\ \E f \in OtherFields :
          /\ fm[f] # SecondValue[f]
          /\ fm' = [fm EXCEPT ![f] = SecondValue[f]]
    /\ since' = "edited"
    /\ UNCHANGED <<now, out, prev, between, args, conv, pick, hist, tasks, built, input>>

NextTwice == Call \/ Persist \/ EditOther

SpecTwice == InitTwice /\ [][NextTwice]_vars

\* ------------------- specification: a ledger of one entry and one exit fill
\* amounts and prices: whole numbers and fractions, some finer than round keeps
AmountSamples == { Num(n, d) : n \in 1..MaxAmount, d \in {1, 2, 3, 8} }
PriceSamples == { Num(n, d) : n \in 1..MaxPrice, d \in {1, 2, 3} }
actionOf(dir) == IF dir = -1 THEN "short" ELSE "long"

InitBuilt ==
    /\ args \in { x \in [dir : {1, -1}, a : AmountSamples, p : PriceSamples,
                          b : AmountSamples, q : PriceSamples] : ~jsGt(x.b, x.a) }
    /\ fm \in { InputRecord(act, Undefined, NoTime, FillsArray(<< >>)) : act \in { "", actionOf(args.dir) } }
    /\ tasks = EmptyBag
    /\ built = NoBuild
    /\ input = NoInput
    /\ conv = NoConv
    /\ pick = NoPick
    /\ hist = NoCall
    /\ now = 1
    /\ out = NoCall
    /\ prev = NoCall
    /\ since = "nothing"
    /\ between = "nothing"

\* the Enter fill of a units at price p
BuildEntry ==
    /\ Len(fm.fills.items) = 0
    /\ fm' = [fm EXCEPT !.fills = FillsArray(<< buildFill(args.dir, "in", args.a, args.p, Undefined, 60) >>)]
    /\ UNCHANGED <<now, out, prev, since, between, args, conv, pick, hist, tasks, built, input>>

\* the Exit fill of b units at price q
BuildExit ==
    /\ Len(fm.fills.items) = 1
    /\ fm' = [fm EXCEPT !.fills = FillsArray(Append(@.items, buildFill(args.dir, "out", args.b, args.q, Undefined, 120)))]
    /\ UNCHANGED <<now, out, prev, since, between, args, conv, pick, hist, tasks, built, input>>

\* computeMetrics over the finished ledger
ComputeBuilt ==
    /\ Len(fm.fills.items) = 2
    /\ Compute

NextBuilt == BuildEntry \/ BuildExit \/ ComputeBuilt

SpecBuilt == InitBuilt /\ [][NextBuilt]_vars

\* --------------------------------- specification: the plugin on a trade note
\* What the user may type into the dialogs.
ActionInputs == { "long", "short" }
SideInputs == { "in", "out" }
AmountInputs == { Int2Num(1), Zero, NaN }
QuoteInputs == { Int2Num(2), Int2Num(-2), Zero }
PriceInputs == { Int2Num(3), Zero }
StopInputs == { NaN, Int2Num(1) }
WhenInputs == { 90 }
\* the time typed into Add Fill: a fill entered late, dated before the entry
WhenAdded == { 30 }

\* before New Trade there is no note
NoNote == Frontmatter("", NoTime, "", "", "", Undefined, NoTime, FillsAbsent, NoMetrics)
noteExists == fm.id # ""

\* an open Add Fill dialog, an open Close Trade dialog, and a handler that has
\* written its fill and awaits its persistMetrics
AddFillModal(dir) == [k |-> "add", dir |-> dir, pos |-> Zero]
CloseTradeModal(dir, pos) == [k |-> "close", dir |-> dir, pos |-> pos]
AwaitingPersist == [k |-> "persist", dir |-> 1, pos |-> Zero]
started(t) == tasks (+) SetToBag({t})
finished(t) == tasks (-) SetToBag({t})
replaced(t, u) == (tasks (-) SetToBag({t})) (+) SetToBag({u})

\* Number.isFinite(x) && x > 0
isPositive(x) == IsNum(x) /\ x.n > 0

\* dir of a dialog: String(fm?.action || 'long').toLowerCase() === 'short' ? -1 : 1
dirOfAction(action) == IF action \in {"short", "SHORT"} THEN -1 ELSE 1

\* a variant that keeps the ledger in order of time
pushFillByTime(fw, fill) ==
    LET items == IF fw.fills.k = "array" THEN fw.fills.items ELSE << >>
        later == { i \in 1..Len(items) : jsGt(DateParse(items[i].t), DateParse(fill.t)) }
        at == IF later = {} THEN Len(items) + 1 ELSE CHOOSE i \in later : \A j \in later : i <= j
    IN  [fw EXCEPT !.fills = FillsArray(SubSeq(items, 1, at - 1) \o << fill >> \o SubSeq(items, at, Len(items)))]
\* frontmatter.fills.push(fill), on an array made empty when fills is no array
pushFill(fw, fill) ==
    [fw EXCEPT !.fills = FillsArray(Append(IF @.k = "array" THEN @.items ELSE << >>, fill))]

\* fills.reduce((acc, f) => acc + (Number(f.base) || 0), 0)
RECURSIVE positionOf(_)
positionOf(fills) ==
    IF fills = << >> THEN Zero
    ELSE jsAdd(orZero(Number(Head(fills).base)), positionOf(Tail(fills)))

InitNote ==
    /\ fm = NoNote
    /\ tasks = EmptyBag
    /\ built = NoBuild
    /\ input = NoInput
    /\ conv = NoConv
    /\ pick = NoPick
    /\ hist = NoCall
    /\ now = 1
    /\ out = NoCall
    /\ prev = NoCall
    /\ since = "nothing"
    /\ between = "nothing"
    /\ args = NoArgs

\* the clock moves on
Tick ==
    /\ now < MaxClock
    /\ now' = now + 1
    /\ UNCHANGED <<fm, tasks, harness, input>>

\* New Trade submitted with these values: bad input is refused, else the note
\* is created with its first fill and the handler goes on to persistMetrics
newTradeWith(action, amount, allocation, initialStop, tradeDate) ==
    /\ ~noteExists
    /\ IF ~isPositive(amount) \/ ~isPositive(allocation)
       THEN UNCHANGED <<fm, tasks>>
       ELSE /\ fm' = Frontmatter("T-1", toIsoUtc(tradeDate), "BTC/USDT", "", action,
                                 IF IsNum(initialStop) THEN initialStop ELSE Undefined,
                                 NoTime,
                                 FillsArray(<< buildFill(dirOfAction(action), "in", amount,
                                                         jsDiv(allocation, amount), Undefined, tradeDate) >>),
                                 NoMetrics)
            /\ tasks' = started(AwaitingPersist)

newTrade ==
    /\ \E action \in ActionInputs, amount \in AmountInputs, allocation \in QuoteInputs,
          initialStop \in StopInputs, tradeDate \in WhenInputs :
          newTradeWith(action, amount, allocation, initialStop, tradeDate)
    /\ UNCHANGED <<now, harness, input>>

\* Add Fill chosen: no dialog for a closed trade, else a dialog that keeps dir
openAddFillModal ==
    /\ noteExists
    /\ BagCardinality(tasks) < MaxTasks
    /\ IF jsTruthyTime(fm.closed_at)
       THEN UNCHANGED tasks
       ELSE tasks' = started(AddFillModal(dirOfAction(fm.action)))
    /\ UNCHANGED <<fm, now, harness, input>>

\* OK pressed in an Add Fill dialog holding these values: bad input is
\* refused, else the fill is appended and the handler goes on to persistMetrics
submitAddFillWith(dir, side, amt, q, when) ==
    /\ BagIn(AddFillModal(dir), tasks)
    /\ IF ~isPositive(amt) \/ ~IsNum(q) \/ q.n = 0
       THEN /\ tasks' = finished(AddFillModal(dir))
            /\ UNCHANGED fm
       ELSE /\ Len(fm.fills.items) < MaxLedger
            /\ fm' = pushFill(fm, buildFill(dir, side, amt, Undefined,
                                            jsMul(jsAbs(q), Int2Num(expectedQuoteSign(dir, side))), when))
            /\ tasks' = replaced(AddFillModal(dir), AwaitingPersist)

submitAddFill ==
    /\ \E dir \in {1, -1}, side \in SideInputs, amt \in AmountInputs, q \in QuoteInputs,
          when \in WhenAdded :
          submitAddFillWith(dir, side, amt, q, when)
    /\ UNCHANGED <<now, harness, input>>

\* Close Trade chosen: no dialog for a flat ledger (|pos| < 1e-12, which for
\* the model's numbers is pos = 0), else a dialog that keeps dir and pos
openCloseTradeModal ==
    /\ noteExists
    /\ BagCardinality(tasks) < MaxTasks
    /\ LET pos == positionOf(IF fm.fills.k = "array" THEN fm.fills.items ELSE << >>)
       IN  IF pos = Zero
           THEN UNCHANGED tasks
           ELSE tasks' = started(CloseTradeModal(dirOfAction(fm.action), pos))
    /\ UNCHANGED <<fm, now, harness, input>>

\* OK pressed in a Close Trade dialog t holding these values, in price mode
\* or (any other mode) in quote mode
submitCloseTradeWith(t, mode, p, q, when) ==
    /\ BagIn(t, tasks)
    /\ t.k = "close"
    /\ LET bad == IF mode = "price" THEN ~isPositive(p) ELSE (~IsNum(q) \/ q.n = 0)
           fill == IF mode = "price"
                   THEN buildFill(t.dir, "out", jsAbs(t.pos), p, Undefined, when)
                   ELSE buildFill(t.dir, "out", jsAbs(t.pos), Undefined,
                                  jsMul(jsAbs(q), Int2Num(expectedQuoteSign(t.dir, "out"))), when)
       IN  IF bad
           THEN /\ tasks' = finished(t)
                /\ UNCHANGED fm
           ELSE /\ Len(fm.fills.items) < MaxLedger
                /\ fm' = [pushFill(fm, fill) EXCEPT !.closed_at = toIsoUtc(when)]
                /\ tasks' = replaced(t, AwaitingPersist)

submitCloseTrade ==
    /\ \E t \in BagToSet(tasks), mode \in {"price", "quote"}, p \in PriceInputs, q \in QuoteInputs,
          when \in WhenInputs :
          submitCloseTradeWith(t, mode, p, q, when)
    /\ UNCHANGED <<now, harness, input>>

\* Cancel pressed in a dialog
cancelModal ==
    /\ \E t \in BagToSet(tasks) :
          /\ t.k \in {"add", "close"}
          /\ tasks' = finished(t)
    /\ UNCHANGED <<fm, now, harness, input>>

\* a handler's awaited persistMetrics runs
persistMetrics ==
    /\ BagIn(AwaitingPersist, tasks)
    /\ fm' = persistMetricsOn(fm, now)
    /\ tasks' = finished(AwaitingPersist)
    /\ UNCHANGED <<now, harness, input>>

\* Recompute: persistMetrics on the note
recomputeTrade ==
    /\ noteExists
    /\ fm' = persistMetricsOn(fm, now)
    /\ UNCHANGED <<tasks, now, harness, input>>

Next ==
    \/ Tick
    \/ newTrade
    \/ openAddFillModal
    \/ submitAddFill
    \/ openCloseTradeModal
    \/ submitCloseTrade
    \/ cancelModal
    \/ persistMetrics
    \/ recomputeTrade

Spec == InitNote /\ [][Next]_vars

\* ------------------------------------- specification: buildFill on its own
\* the options a caller may pass: amounts and prices that are valid, zero,
\* negative, not a number or left out, and quotes of either sign
AmountOpts == AmountSamples \cup { Zero, NaN, Int2Num(-1) }
PriceOpts == PriceSamples \cup { Undefined, Null, Zero, NaN, Int2Num(-1) }
QuoteOpts == { Undefined, Null, Zero, NaN, Int2Num(2), Int2Num(-2), Num(1, 3), Num(-3, 2) }

InitFill ==
    /\ fm = NoNote
    /\ NoCalls

\* buildFill(opts)
Build ==
    /\ ~built.called
    /\ \E dir \in {1, -1}, side \in SideInputs, amount \in AmountOpts, price \in PriceOpts,
          quote \in QuoteOpts, when \in WhenInputs :
          built' = [called |-> TRUE, rebuilt |-> FALSE,
                    opts |-> BuildOpts(dir, side, amount, price, quote, when),
                    fill |-> buildFill(dir, side, amount, price, quote, when),
                    first |-> NullElement]
    /\ UNCHANGED <<fm, now, out, prev, since, between, args, conv, pick, hist, tasks, input>>

\* buildFill again, with the quote of the fill just built and no price; opts
\* stays the options of the first call, first is the fill it returned
Rebuild ==
    /\ built.called /\ ~built.rebuilt
    /\ LET o == built.opts
       IN  built' = [called |-> TRUE, rebuilt |-> TRUE,
                     opts |-> o,
                     fill |-> buildFill(o.dir, o.side, o.amount, Undefined, built.fill.quote, o.when),
                     first |-> built.fill]
    /\ UNCHANGED <<fm, now, out, prev, since, between, args, conv, pick, hist, tasks, input>>

NextFill ==
    \/ Build
    \/ Rebuild

SpecFill == InitFill /\ [][NextFill]_vars

\* ------------------------ specification: what the dialogs accept and append
\* What a user can type: any side, amounts, quotes and prices that are valid,
\* too small to survive rounding, zero or not a number.
Tiny == Num(1, 4 * Pow10(ModelPlaces))
SideTyped == { "in", "out", "sell" }
AmountTyped == { Int2Num(1), Tiny, Zero, NaN }
QuoteTyped == { Int2Num(2), Int2Num(-2), Tiny, Zero, NaN }
PriceTyped == { Int2Num(3), Tiny, Zero, NaN }

typedNewTrade ==
    /\ \E action \in ActionInputs, amount \in AmountTyped, allocation \in { Int2Num(2), Zero },
          tradeDate \in WhenInputs :
          /\ newTradeWith(action, amount, allocation, NaN, tradeDate)
          /\ input' = Submitted("new", "in", "", amount, Zero, allocation)
    /\ UNCHANGED <<now, harness>>

typedAddFill ==
    /\ Len(fm.fills.items) < MaxFills
    /\ \E dir \in {1, -1}, side \in SideTyped, amt \in AmountTyped, q \in QuoteTyped,
          when \in WhenAdded :
          /\ submitAddFillWith(dir, side, amt, q, when)
          /\ input' = Submitted("add", side, "", amt, Zero, q)
    /\ UNCHANGED <<now, harness>>

typedCloseTrade ==
    /\ Len(fm.fills.items) < MaxFills
    /\ \E t \in BagToSet(tasks), when \in WhenInputs,
          typed \in { Submitted("close", "out", "price", Zero, p, Zero) : p \in PriceTyped }
                 \cup { Submitted("close", "out", "quote", Zero, Zero, q) : q \in QuoteTyped } :
          /\ submitCloseTradeWith(t, typed.mode, typed.price, typed.quote, when)
          /\ input' = typed
    /\ UNCHANGED <<now, harness>>

NextTyped ==
    \/ typedNewTrade
    \/ openAddFillModal
    \/ typedAddFill
    \/ openCloseTradeModal
    \/ typedCloseTrade
    \/ cancelModal
    \/ persistMetrics

SpecTyped == InitNote /\ [][NextTyped]_vars

\* ------------------ specification: a record edited by hand and recomputed
\* The note's frontmatter is a text the owner can edit: a fill is added to or
\* taken from the end of `fills`, closed_at is written or removed; Recompute
\* (persistMetrics) then runs on the record as it stands.
LedgerSamples ==
    { Fill("in", Iso(60), Int2Num(2), Int2Num(-4), Int2Num(2)),
      Fill("out", Iso(120), Int2Num(-2), Int2Num(6), Int2Num(3)),
      Fill("in", Iso(60), Tiny, Zero, Zero),
      NullElement }

InitLedger ==
    /\ fm \in { InputRecord(a, Undefined, c, FillsArray(q)) :
                    a \in { "long", "short" }, c \in { NoTime, Iso(120) },
                    q \in SeqsUpTo(LedgerSamples, 1) }
    /\ NoCalls

AppendByHand ==
    /\ since # "changed"
    /\ Len(fm.fills.items) < MaxFills
    /\ \E f \in LedgerSamples : fm' = pushFill(fm, f)
    /\ since' = "changed"
    /\ UNCHANGED <<now, out, prev, between, args, conv, pick, hist, tasks, built, input>>

RemoveByHand ==
    /\ since # "changed"
    /\ Len(fm.fills.items) > 0
    /\ fm' = [fm EXCEPT !.fills = FillsArray(SubSeq(@.items, 1, Len(@.items) - 1))]
    /\ since' = "changed"
    /\ UNCHANGED <<now, out, prev, between, args, conv, pick, hist, tasks, built, input>>

MarkByHand ==
    /\ since # "changed"
    /\ fm' = [fm EXCEPT !.closed_at = IF jsTruthyTime(@) THEN NoTime ELSE Iso(120)]
    /\ since' = "changed"
    /\ UNCHANGED <<now, out, prev, between, args, conv, pick, hist, tasks, built, input>>

NextLedger == AppendByHand \/ RemoveByHand \/ MarkByHand \/ Persist

SpecLedger == InitLedger /\ [][NextLedger]_vars

\* ------------------------------- specification: a typed time and its zone
\* What a dialog's time field and zone field may hold: readings every half
\* hour of the model's four days, other texts, and zone names, one of them
\* unknown to Intl and "" for no zone.
MaxHalfHours == 192
ReadingSamples == { Reading(h * 30 * SecondsPerMinute) : h \in 0..MaxHalfHours }
TextSamples == ReadingSamples \cup { EmptyText, BadText, OtherText(SpringAt + 95) }
ZoneSamples == { z.name : z \in KnownZones } \cup { "", "Mars/Olympus" }
FallbackSamples == { NullDate, DateAt(SpringAt + 90), DateAt(SpringAt + 100) }

InitTime ==
    /\ fm = NoNote
    /\ NoCalls

\* toUtcDateFromInput(vals.time || '', fallback, vals.time_tz)
Convert ==
    /\ ~conv.called
    /\ \E text \in TextSamples, zone \in ZoneSamples, fallback \in FallbackSamples :
          conv' = Converted(text, zone, fallback, toUtcDateFromInput(text, fallback, zone))
    /\ UNCHANGED <<fm, now, out, prev, since, between, args, tasks, built, input, pick, hist>>

\* formatDateTimeInZone of the Date returned, in the same zone
Show ==
    /\ conv.called /\ conv.date.k = "date"
    /\ conv.shown = EmptyText
    /\ conv' = [conv EXCEPT !.shown = formatDateTimeInZone(conv.date, conv.zone)]
    /\ UNCHANGED <<fm, now, out, prev, since, between, args, tasks, built, input, pick, hist>>

\* toIsoUtc of the Date returned, as buildFill and Close Trade write it
Stamp ==
    /\ conv.called /\ conv.date.k = "date"
    /\ conv.iso = NoTime
    /\ conv' = [conv EXCEPT !.iso = toIsoUtc(conv.date.s)]
    /\ UNCHANGED <<fm, now, out, prev, since, between, args, tasks, built, input, pick, hist>>

NextTime == Convert \/ Show \/ Stamp

SpecTime == InitTime /\ [][NextTime]_vars

\* ------------------ specification: the two computeMetrics of the helpers
\* Records of long and of short trades, one with an entry whose quote is one
\* unit of the last decimal place kept, and malformed elements; each record is
\* given to the computeMetrics in use and to the historical one.
VariantFillSamples ==
    { Fill("in", Iso(60), Int2Num(2), Int2Num(-4), Int2Num(2)),
      Fill("out", Iso(120), Int2Num(-1), Int2Num(3), Int2Num(3)),
      Fill("in", Iso(60), Int2Num(-2), Int2Num(4), Int2Num(2)),
      Fill("out", Iso(120), Int2Num(1), Int2Num(-1), Int2Num(1)),
      Fill("in", Iso(60), Int2Num(-2), Num(1, Pow10(ModelPlaces)), Zero),
      Fill("out", Iso(60), Int2Num(3), NonNumericString, Zero),
      NullElement }

InitVariants ==
    /\ fm \in { InputRecord(a, s, NoTime, FillsArray(q)) :
                    a \in { "", "long", "short" }, s \in { Undefined, Int2Num(1) },
                    q \in SeqsUpTo(VariantFillSamples, MaxFills) }
    /\ NoCalls

\* a call of the historical computeMetrics on the record
ComputeHistorical ==
    /\ ~hist.called
    /\ hist' = Called(computeMetricsHistorical(fm, now))
    /\ UNCHANGED <<fm, now, out, prev, since, between, args, conv, pick, tasks, built, input>>

NextVariants == Compute \/ ComputeHistorical

SpecVariants == InitVariants /\ [][NextVariants]_vars

\* --------------------------------- specification: a picker and its promise
MaxEvents == 4
ItemSamples == { "T-1", "T-2" }

\* finish(value): the first call resolves the promise, later calls return
finish(p, value) ==
    IF p.done THEN p
    ELSE [p EXCEPT !.done = TRUE, !.resolves = @ + 1,
                   !.value = IF @ = "pending" THEN value ELSE @]

\* a variant that resolves null in the close event itself
onCloseResolvingAtOnce(p) == finish([p EXCEPT !.open = FALSE], "null")
\* picker.onClose: origClose(), then setTimeout(() => finish(null), 0)
onClose(p) == [p EXCEPT !.open = FALSE, !.timers = @ + 1]

InitPick ==
    /\ fm = NoNote
    /\ NoCalls

\* pickFromModal(picker): the promise is made and the picker opened
pickFromModal ==
    /\ pick = NoPick
    /\ pick' = Picker(TRUE, 0, FALSE, 0, "pending", << >>)
    /\ UNCHANGED <<fm, now, out, prev, since, between, args, conv, hist, tasks, built, input>>

\* the picker is closed (Escape, a click outside, or on the way to a choice)
closePicker ==
    /\ pick.k = "picker" /\ pick.open
    /\ Len(pick.events) < MaxEvents
    /\ pick' = [onClose(pick) EXCEPT !.events = Append(@, "close")]
    /\ UNCHANGED <<fm, now, out, prev, since, between, args, conv, hist, tasks, built, input>>

\* a deferred callback of a close event runs: finish(null)
timerFires ==
    /\ pick.k = "picker" /\ pick.timers > 0
    /\ pick' = [finish([pick EXCEPT !.timers = @ - 1], "null") EXCEPT !.events = Append(@, "timer")]
    /\ UNCHANGED <<fm, now, out, prev, since, between, args, conv, hist, tasks, built, input>>

\* onChooseSuggestion(item): this.onChoose?.(item), which is finish
chooseSuggestion ==
    /\ pick.k = "picker"
    /\ Len(pick.events) < MaxEvents
    /\ \E item \in ItemSamples :
          pick' = [finish(pick, item) EXCEPT !.events = Append(@, item)]
    /\ UNCHANGED <<fm, now, out, prev, since, between, args, conv, hist, tasks, built, input>>

NextPick == pickFromModal \/ closePicker \/ timerFires \/ chooseSuggestion

\* a callback handed to setTimeout is run
SpecPick == InitPick /\ [][NextPick]_vars /\ WF_vars(timerFires)

\* ================================================================== claims
\* the record's ledger as computeMetrics reads it, and what the claims name
ledger == IF fm.fills.k = "array" THEN fm.fills.items ELSE << >>
inBase == Sums(ledger).inB
inQuote == Sums(ledger).inQ
outBase == Sums(ledger).outB
outQuote == Sums(ledger).outQ
returned == out.called /\ ~out.threw
closedAtPresent == fm.closed_at.k # "undefined"
closedAtSet == fm.closed_at.k \in {"iso", "str"}
roundedPosition == round(jsAdd(inBase, outBase))
exitedAndEntered == IsNum(outBase) /\ outBase.n # 0 /\ IsNum(inBase) /\ inBase.n # 0

\* C1 (as claimed): computeMetrics returns a Metrics value, without throwing,
\* for every input record, null elements of the fills array included.
C1_NeverThrows == out.called => ~out.threw

\* C2: whenever |outBase| > 0 and inBase # 0, the returned realized_pnl is
\* round(dir * (|outQuote| - avgEntry * exitedUnits)) with dir = +1 for action
\* 'long', -1 for 'short' and the sign of inBase otherwise; under an explicit
\* 'short' an exit below the entry price never gives a negative realized_pnl
\* and gives a positive one once the profit reaches a rounding unit, and an
\* exit above the entry price never gives a positive one and gives a negative
\* one once the loss reaches a rounding unit.
C2_dir ==
    IF fm.action = "long" THEN 1
    ELSE IF fm.action = "short" THEN -1
    ELSE IF inBase.n < 0 THEN -1 ELSE 1
C2_avgEntry == jsDiv(jsAbs(inQuote), jsAbs(inBase))
C2_avgExit == jsDiv(jsAbs(outQuote), jsAbs(outBase))
C2_exactPnl == jsMul(Int2Num(C2_dir), jsSub(jsAbs(outQuote), jsMul(C2_avgEntry, jsAbs(outBase))))
C3_ClosedIffFlatOrPresent ==
    (returned /\ Len(ledger) >= 1) =>
        (out.m.status = "closed" <=>
            ((IsNum(roundedPosition) /\ roundedPosition.n = 0) \/ closedAtPresent))

\* C3 (amended): with at least one fill, status is 'closed' exactly when the
\* rounded position is 0 or closed_at holds a non-empty value, else 'open'.
C3_ClosedIffFlatOrSet ==
    (returned /\ Len(ledger) >= 1) =>
        /\ out.m.status \in {"open", "closed"}
        /\ out.m.status = "closed" <=>
              ((IsNum(roundedPosition) /\ roundedPosition.n = 0) \/ closedAtSet)

\* closed by the marker alone, over a nonzero position
C3_Witness ==
    /\ returned /\ Len(ledger) >= 1
    /\ IsNum(roundedPosition) /\ roundedPosition.n # 0
    /\ closedAtSet
    /\ out.m.status = "closed"

\* C4 (as claimed): whenever closed_at is present the status is 'closed',
\* whatever the fills and the position, an empty ledger included.
C4_PresentForcesClosed == (returned /\ closedAtPresent) => out.m.status = "closed"

\* C4 (amended): whenever the ledger has at least one fill and closed_at holds
\* a non-empty value the status is 'closed', whatever the position.
C4_SetForcesClosed ==
    (returned /\ Len(ledger) >= 1 /\ closedAtSet) => out.m.status = "closed"

\* closed with a position that is not a number at all
C4_Witness ==
    /\ returned /\ Len(ledger) >= 1 /\ closedAtSet
    /\ roundedPosition = Null
    /\ out.m.status = "closed"

\* C5: a record whose fills are absent, not an array or empty yields exactly
\* status 'open', null aggregates, and neither last_fill_at nor computed_at,
\* whatever action, initial_stop and closed_at are.
C5_EmptyLedger ==
    (out.called /\ (fm.fills.k # "array" \/ Len(fm.fills.items) = 0)) =>
        /\ ~out.threw
        /\ out.m = Metrics("open", Null, Null, Null, Null, Null, "null", NoTime, NoTime)

C5_Witness ==
    /\ out.called /\ fm.fills.k = "other"
    /\ fm.action = "short" /\ fm.initial_stop # Undefined /\ closedAtSet
    /\ out.m.status = "open" /\ out.m.computed_at = NoTime

\* C6: two calls on the same record, with nothing or only the storing of the
\* first result as `metrics` in between, end alike: both throw or both return,
\* and the returned values are equal in every field but computed_at.
C6_Idempotent ==
    (out.called /\ prev.called /\ between \in {"nothing", "stored"}) =>
        /\ out.threw = prev.threw
        /\ IgnoringComputedAt(out.m) = IgnoringComputedAt(prev.m)

\* the second call ran on a record holding the first result, at a later instant
C6_Witness ==
    /\ out.called /\ prev.called /\ between = "stored"
    /\ ~out.threw
    /\ fm.metrics.k = "obj"
    /\ out.m.computed_at # prev.m.computed_at
    /\ IsNum(out.m.realized_pnl)

\* C7: whenever the note exists and no handler is between its write and its
\* persistMetrics, the stored metrics is computeMetrics of the whole stored
\* record, computed_at aside: no finished operation leaves a snapshot that
\* misses an appended fill.
C7_quiescent == noteExists /\ ~BagIn(AwaitingPersist, tasks)
C7_SnapshotIsFresh ==
    C7_quiescent =>
        /\ fm.metrics.k = "obj"
        /\ ~computeMetrics(fm, now).threw
        /\ IgnoringComputedAt(fm.metrics.m) = IgnoringComputedAt(computeMetrics(fm, now).m)

\* an Add Fill dialog opened before the trade was closed was submitted after
\* the closing write; every handler has finished, and the snapshot, taken at
\* an earlier instant, covers all three fills
C7_Witness ==
    /\ C7_quiescent
    /\ tasks = EmptyBag
    /\ closedAtSet
    /\ Len(fm.fills.items) = 3
    /\ sideOf(fm.fills.items[3]) = "in"
    /\ fm.metrics.m.computed_at # Iso(now)
    /\ IsNum(fm.metrics.m.realized_pnl)

\* C8: two records that agree on fills, action, initial_stop and closed_at and
\* differ in another field (id, timestamp, pair, account, a stored metrics
\* snapshot) give results equal in every field but computed_at.
C8_OnlyLedgerFieldsMatter ==
    (out.called /\ prev.called /\ between = "edited") =>
        /\ out.threw = prev.threw
        /\ IgnoringComputedAt(out.m) = IgnoringComputedAt(prev.m)

\* the second record carries a stale 'closed' snapshot and still comes out open
C8_Witness ==
    /\ out.called /\ prev.called /\ between = "edited"
    /\ ~out.threw
    /\ fm.metrics = StaleMetrics
    /\ out.m.status = "open" /\ prev.m.status = "open"

\* C9 (as claimed): with at least one fill, last_fill_at is the greatest
\* instant among the fills whose timestamp parses, at or before the epoch
\* too, and null only when no timestamp parses.
C9_validInstants == { DateParse(ledger[i].t).n : i \in { j \in 1..Len(ledger) : IsNum(DateParse(ledger[j].t)) } }
C9_LastFillAtIsMax ==
    (returned /\ Len(ledger) >= 1) =>
        IF C9_validInstants = {} THEN out.m.last_fill_at = NullTime
        ELSE \E t \in C9_validInstants :
                /\ \A u \in C9_validInstants : u <= t
                /\ out.m.last_fill_at = Iso(t)

\* C10 (as claimed): for an Enter fill of a units at price p and an Exit fill
\* of b units at price q, both built by buildFill with one direction and
\* 0 < b <= a: position = a - b, avg_entry = p, avg_exit = q,
\* realized_pnl = dir * b * (q - p), win = (realized_pnl > 0), and status
\* 'closed' when b = a and 'open' when b < a.
C10_builtLedger == returned /\ Len(ledger) = 2 /\ args # NoArgs
C10_pnl == jsMul(Int2Num(args.dir), jsMul(args.b, jsSub(args.q, args.p)))
C10_rest ==
    /\ out.m.avg_entry = args.p
    /\ out.m.avg_exit = args.q
    /\ out.m.realized_pnl = C10_pnl
    /\ out.m.win = (IF jsGt(C10_pnl, Zero) THEN "true" ELSE "false")
    /\ out.m.status = (IF args.b = args.a THEN "closed" ELSE "open")
C10_EntryAndExit ==
    C10_builtLedger => (out.m.position = jsSub(args.a, args.b) /\ C10_rest)

\* C10 (amended): position = dir * (a - b), negative for a short that is still
\* open, whenever a and b are multiples of the rounding unit; and for a, b, p,
\* q with at most half as many decimals as round keeps (5 of 10 in the code),
\* avg_entry = p, avg_exit = q, realized_pnl = dir * b * (q - p),
\* win = (realized_pnl > 0) and status 'closed' when b = a, 'open' when b < a.
C10_decimals(x, places) == (x.n * Pow10(places)) % x.d = 0
C10_exact ==
    \A x \in { args.a, args.b, args.p, args.q } : C10_decimals(x, ModelPlaces \div 2)
C10_EntryAndExitExact ==
    C10_builtLedger =>
        /\ (C10_decimals(args.a, ModelPlaces) /\ C10_decimals(args.b, ModelPlaces)) =>
              out.m.position = jsMul(Int2Num(args.dir), jsSub(args.a, args.b))
        /\ C10_exact => C10_rest

\* a short with a fractional amount, partly exited at a profit
C10_Witness ==
    /\ C10_builtLedger /\ C10_exact
    /\ args.dir = -1 /\ args.b.d = 2 /\ jsLt(args.b, args.a) /\ jsLt(args.q, args.p)
    /\ jsLt(out.m.position, Zero)
    /\ out.m.win = "true" /\ out.m.status = "open"

\* C11: r_multiple is round(realized_pnl / (|avgEntry - initial_stop| *
\* exitedUnits)), a null realized_pnl dividing as 0 as it does in JavaScript,
\* exactly when initial_stop is present, avgEntry is non-null, exitedUnits > 0
\* and |avgEntry - initial_stop| > 0, and null in every other case, a ledger
\* without exits among them; a negative realized_pnl never gives a positive
\* r_multiple and gives a negative one once the ratio reaches a rounding unit.
C11_riskPerUnit == jsAbs(jsSub(C2_avgEntry, Number(fm.initial_stop)))
C11_due ==
    /\ ~IsNullish(fm.initial_stop)
    /\ jsTruthyNum(inBase)
    /\ jsTruthyNum(outBase)
    /\ jsGt(C11_riskPerUnit, Zero)
C11_ratio == jsDiv(nullToZero(out.m.realized_pnl), jsMul(C11_riskPerUnit, jsAbs(outBase)))
C12_isZero(x) == IsNum(x) /\ x.n = 0
C12_WinAndRealized ==
    (returned /\ Len(ledger) >= 1) =>
        /\ (out.m.win = "null") <=> (out.m.realized_pnl = Null)
        /\ (out.m.win = "true") <=> jsGt(out.m.realized_pnl, Zero)
        /\ (out.m.realized_pnl = Null) <=> (C12_isZero(outBase) \/ C12_isZero(inBase))
        /\ (\A i \in 1..Len(ledger) : sideOf(ledger[i]) \in {"in", ""}) =>
              (out.m.realized_pnl = Null /\ out.m.win = "null" /\ out.m.avg_exit = Null)

\* C13: a fill whose base or quote is missing, null or a non-numeric string
\* counts as 0: the result is that of the ledger in which every such field
\* is replaced by 0.
C13_zeroed(v) == IF IsNum(v) THEN v ELSE Zero
C13_repaired(fills) ==
    [i \in 1..Len(fills) |->
        IF fills[i].k = "obj"
        THEN [fills[i] EXCEPT !.base = C13_zeroed(@), !.quote = C13_zeroed(@)]
        ELSE fills[i]]
C13_MalformedCountsAsZero ==
    returned =>
        LET repaired == [fm EXCEPT !.fills = FillsArray(C13_repaired(ledger))]
        IN  (fm.fills.k = "array") =>
               IgnoringComputedAt(out.m) = IgnoringComputedAt(computeMetrics(repaired, now).m)

\* C14 (as claimed): for every direction, side, amount > 0 and price > 0 the
\* fill built from (amount, price) has price equal to the supplied price and
\* quote = -base * price, and the fill rebuilt from the same direction, side
\* and amount with that quote and no price has the same base, quote and price.
C14_valid == built.called /\ isPositive(built.opts.amount) /\ isPositive(built.opts.price)
C14_first == IF built.rebuilt THEN built.first ELSE built.fill
C14_sameAgain(field) == built.rebuilt => built.fill[field] = built.first[field]
C14_RoundTrip ==
    C14_valid =>
        /\ C14_first.price = built.opts.price
        /\ C14_first.quote = jsNeg(jsMul(C14_first.base, built.opts.price))
        /\ C14_sameAgain("base") /\ C14_sameAgain("quote") /\ C14_sameAgain("price")

\* C14 (amended): the fill built from (amount, price) has price = round(price)
\* and quote = round(-base * price), and the rebuilt fill has the same base and
\* quote; when amount and price have at most half as many decimals as round
\* keeps (5 of 10 in the code), price is the supplied price, quote is
\* -base * price and the rebuilt fill has the same price too.
C14_exact == C10_decimals(built.opts.amount, ModelPlaces \div 2) /\ C10_decimals(built.opts.price, ModelPlaces \div 2)
C14_RoundTripExact ==
    C14_valid =>
        /\ C14_first.price = round(built.opts.price)
        /\ C14_first.quote = round(jsNeg(jsMul(C14_first.base, built.opts.price)))
        /\ C14_sameAgain("base") /\ C14_sameAgain("quote")
        /\ C14_exact =>
              /\ C14_first.price = built.opts.price
              /\ C14_first.quote = jsNeg(jsMul(C14_first.base, built.opts.price))
              /\ C14_sameAgain("price")

\* a short's exit of half a unit, rebuilt from its quote with the same price
C14_Witness ==
    /\ C14_valid /\ C14_exact /\ built.rebuilt
    /\ built.opts.dir = -1 /\ built.opts.side = "out" /\ built.opts.amount = Num(1, 2)
    /\ built.opts.price = Num(3, 2)
    /\ built.fill.price = built.opts.price
    /\ built.fill.quote = Num(-3, 4)

\* C15: every Fill buildFill returns, whatever amount, price and quote were
\* supplied (a price <= 0, both price and quote, an amount of 0), has
\* price >= 0 and price = |quote| / |base|.
C15_PriceIsDerived ==
    built.called =>
        /\ ~jsLt(built.fill.price, Zero)
        /\ built.fill.price = jsDiv(jsAbs(built.fill.quote), jsAbs(built.fill.base))

\* C17: buildFill returns a Fill for zero and degenerate input too (amount 0
\* or not a number, price absent or <= 0, quote absent or 0), and every field
\* it could not derive from valid input is stored as 0: base without a usable
\* amount, price and quote without a usable price or quote.
C17_noAmount == ~jsTruthyNum(built.opts.amount)
C17_noPrice == ~isPositive(built.opts.price)
C17_noQuote == ~jsTruthyNum(built.opts.quote)
C17_DegenerateGivesZero ==
    (built.called /\ ~built.rebuilt) =>
        /\ built.fill.k = "obj"
        /\ IsNum(built.fill.base) /\ IsNum(built.fill.quote) /\ IsNum(built.fill.price)
        /\ C17_noAmount => built.fill.base = Zero
        /\ (C17_noPrice /\ C17_noQuote) => (built.fill.price = Zero /\ built.fill.quote = Zero)

\* C16 (as claimed): every fill appended by New Trade, Add Fill or Close Trade
\* has sign(base) = direction * (+1 for 'in', -1 otherwise) and a quote whose
\* sign is -direction for 'in' and +direction otherwise, opposite to that of
\* base; and a raw quote typed into Add Fill or Close Trade is stored with its
\* magnitude and the expected sign.
C16_direction == IF fm.action = "short" THEN -1 ELSE 1
C16_sign(x) == IF x.n > 0 THEN 1 ELSE IF x.n < 0 THEN -1 ELSE 0
C16_baseSign(f) == C16_direction * (IF f.side = "in" THEN 1 ELSE -1)
C16_quoteSign(f) == IF f.side = "in" THEN -C16_direction ELSE C16_direction
C16_last == ledger[Len(ledger)]
C16_quoteTaken ==
    /\ Len(ledger) >= 1
    /\ \/ input.dialog = "add" /\ isPositive(input.amount)
       \/ input.dialog = "close" /\ input.mode = "quote"
    /\ jsTruthyNum(input.quote)
C18_invalid(typed) ==
    \/ typed.dialog = "add" /\ (~isPositive(typed.amount) \/ ~jsTruthyNum(typed.quote))
    \/ typed.dialog = "close" /\ typed.mode = "price" /\ ~isPositive(typed.price)
    \/ typed.dialog = "close" /\ typed.mode # "price" /\ ~jsTruthyNum(typed.quote)
C18_rejectedLeavesRecord ==
    (input' # input /\ C18_invalid(input')) =>
        (fm'.fills = fm.fills /\ fm'.closed_at = fm.closed_at /\ fm'.metrics = fm.metrics)
C18_appendedIsValid ==
    (noteExists /\ fm'.fills # fm.fills) =>
        LET f == fm'.fills.items[Len(fm'.fills.items)]
        IN  f.side \in {"in", "out"} /\ jsTruthyNum(f.base) /\ jsTruthyNum(f.quote)
C18_RejectedOrValid == [][C18_rejectedLeavesRecord /\ C18_appendedIsValid]_vars

\* C19 (as claimed): status is not sticky. In every recomputation that
\* returns, on a record that holds an earlier snapshot, the stored status goes
\* from closed to open exactly when the recomputed record has no closed_at and
\* a rounded position other than 0, and from open to closed exactly when its
\* rounded position is 0 or closed_at is set; and the new status is the one
\* the same record gives without any stored snapshot.
C19_recomputed == now' # now /\ ~out'.threw /\ fm.metrics.k = "obj"
C19_flat == fm'.metrics.m.position = Zero
C19_marked == jsTruthyTime(fm'.closed_at)
C19_unstored == computeMetrics([fm EXCEPT !.metrics = NoMetrics], now).m.status
C19_step ==
    C19_recomputed =>
        LET old == fm.metrics.m.status
            new == fm'.metrics.m.status
        IN  /\ old = "closed" => (new = "open" <=> (~C19_marked /\ ~C19_flat))
            /\ old = "open" => (new = "closed" <=> (C19_flat \/ C19_marked))
            /\ new = C19_unstored
C19_StatusNotSticky == [][C19_step]_vars

\* C19 (amended): the same for a record with at least one fill; a record with
\* no fill is stored as open whether or not closed_at is set.
C19_noFill == fm'.fills.k # "array" \/ fm'.fills.items = << >>
C19_stepWithFills ==
    C19_recomputed =>
        LET old == fm.metrics.m.status
            new == fm'.metrics.m.status
        IN  /\ old = "closed" =>
                (new = "open" <=> (C19_noFill \/ (~C19_marked /\ ~C19_flat)))
            /\ old = "open" =>
                (new = "closed" <=> (~C19_noFill /\ (C19_flat \/ C19_marked)))
            /\ new = C19_unstored
C19_StatusFollowsRecord == [][C19_stepWithFills]_vars

\* closed_at was removed from a record stored as closed with a position of 2:
\* the recomputation stored it as open
C19_Witness ==
    /\ out.called /\ prev.called /\ ~out.threw /\ ~prev.threw
    /\ between = "changed"
    /\ prev.m.status = "closed" /\ prev.m.position = Int2Num(2)
    /\ ~closedAtSet
    /\ fm.metrics.k = "obj" /\ fm.metrics.m.status = "open" /\ fm.metrics.m.position = Int2Num(2)

\* C20: the ledger is append-only. Once the note exists, every step of the
\* plugin leaves each fill of the ledger unchanged and in its place and adds
\* at most one fill, at the end; a step that stores a snapshot (Recompute, a
\* handler's persistMetrics) changes no fill, and neither would a Recompute
\* of the record as it stands.
C20_after == IF fm'.fills.k = "array" THEN fm'.fills.items ELSE << >>
C20_step ==
    noteExists =>
        /\ Len(C20_after) \in { Len(ledger), Len(ledger) + 1 }
        /\ \A i \in 1..Len(ledger) : C20_after[i] = ledger[i]
        /\ fm'.metrics # fm.metrics => fm'.fills = fm.fills
        /\ persistMetricsOn(fm, now).fills = fm.fills
C20_AppendOnly == [][C20_step]_vars

\* an Add Fill dated before the entry stands second, the closing fill third,
\* and the snapshot of all three is stored
C20_Witness ==
    /\ noteExists /\ tasks = EmptyBag
    /\ Len(ledger) = 3
    /\ jsLt(DateParse(ledger[2].t), DateParse(ledger[1].t))
    /\ closedAtSet
    /\ fm.metrics.k = "obj" /\ fm.metrics.m.position = Zero

\* C21: for every zone and every wall-clock reading that exists in that zone,
\* the Date toUtcDateFromInput returns is an instant whose reading in the zone
\* is the text: formatDateTimeInZone(toUtcDateFromInput(text, _, zone), zone)
\* = text.
C21_zone == getTimeZoneFormatter(conv.zone)
C21_exists ==
    \E o \in { C21_zone.a, C21_zone.b, C21_zone.c } : offsetAt(C21_zone, conv.text.l - o) = o
C21_RoundTrip ==
    (conv.called /\ conv.text.k = "parts" /\ conv.shown # EmptyText /\ C21_exists) =>
        conv.shown = conv.text

\* C22 (as claimed): toIsoUtc writes the instant to the second: parsing the
\* canonical string gives back the instant, and an instant with another
\* seconds component has another canonical string.
C22_instants == { f.s : f \in FallbackSamples \ { NullDate } } \cup { t.l : t \in TextSamples }
C22_SecondPrecision ==
    conv.iso # NoTime =>
        /\ DateParse(conv.iso) = Int2Num(conv.date.s)
        /\ \A s \in C22_instants :
              s % SecondsPerMinute # conv.date.s % SecondsPerMinute => toIsoUtc(s) # conv.iso

\* C22 (amended): toIsoUtc writes the instant to the minute: parsing the
\* canonical string gives back the instant truncated to the minute, and two
\* instants have the same canonical string exactly when they lie in the same
\* minute.
C22_minute(s) == s - (s % SecondsPerMinute)
C22_MinutePrecision ==
    conv.iso # NoTime =>
        /\ DateParse(conv.iso) = Int2Num(C22_minute(conv.date.s))
        /\ \A s \in C22_instants : toIsoUtc(s) = conv.iso <=> C22_minute(s) = C22_minute(conv.date.s)

\* the time field was left empty and the fallback, an instant 40 seconds into
\* its minute, was stamped; another instant of that minute has the same string
C22_Witness ==
    /\ conv.iso # NoTime /\ conv.text = EmptyText
    /\ conv.date.s % SecondsPerMinute = 40
    /\ \E s \in C22_instants : s # conv.date.s /\ toIsoUtc(s) = conv.iso

\* C23 (as claimed): on a record whose effective direction is long the two
\* computeMetrics end alike and return the same Metrics, computed_at aside;
\* on a record whose effective direction is short they end alike and differ
\* at most in realized_pnl, r_multiple and win, and the realized_pnl of one is
\* the negation of the other's.
C23_both == out.called /\ hist.called
C23_dir == directionOf(fm.action, inBase)
C23_pnlAside(m) == [IgnoringComputedAt(m) EXCEPT !.realized_pnl = Null, !.r_multiple = Null, !.win = "null"]
C23_long == C23_dir = 1 => IgnoringComputedAt(out.m) = IgnoringComputedAt(hist.m)
C23_VariantsAgree ==
    C23_both =>
        /\ out.threw = hist.threw
        /\ C23_long
        /\ C23_dir = -1 =>
              /\ C23_pnlAside(out.m) = C23_pnlAside(hist.m)
              /\ IF IsNum(hist.m.realized_pnl)
                 THEN out.m.realized_pnl = jsNeg(hist.m.realized_pnl)
                 ELSE out.m.realized_pnl = hist.m.realized_pnl

\* C23 (amended): the same, the realized_pnl of one being the negation of the
\* other's up to rounding: both round half up, so when the unrounded value lies
\* halfway between two values of the last decimal place kept, their sum is one
\* unit of that place instead of 0.
C23_unit == Num(1, Pow10(ModelPlaces))
C23_VariantsAgreeUpToRounding ==
    C23_both =>
        /\ out.threw = hist.threw
        /\ C23_long
        /\ C23_dir = -1 =>
              /\ C23_pnlAside(out.m) = C23_pnlAside(hist.m)
              /\ IF IsNum(hist.m.realized_pnl)
                 THEN jsAdd(out.m.realized_pnl, hist.m.realized_pnl) \in { Zero, C23_unit }
                 ELSE out.m.realized_pnl = hist.m.realized_pnl

\* a short trade that lost 1 on the unit bought back: -1 from the
\* computeMetrics in use, a win of +1 from the historical one
C23_Witness ==
    /\ C23_both /\ ~out.threw /\ fm.action = "short"
    /\ out.m.realized_pnl = Int2Num(-1) /\ hist.m.realized_pnl = Int2Num(1)
    /\ out.m.win = "false" /\ hist.m.win = "true"
    /\ IsNum(out.m.r_multiple) /\ out.m.r_multiple = jsNeg(hist.m.r_multiple)

\* C24: Add Fill never appends to a closed trade: in every step in which an
\* Add Fill dialog's handler appends its fill, closed_at is not set in the
\* record at that moment.
C24_addFillAppends ==
    /\ fm'.fills # fm.fills
    /\ \E dir \in {1, -1} :
          CopiesIn(AddFillModal(dir), tasks') < CopiesIn(AddFillModal(dir), tasks)
C24_NoAppendWhenClosed == [][C24_addFillAppends => ~jsTruthyTime(fm.closed_at)]_vars

\* C25: whenever a Close Trade dialog's handler appends its exit fill, the
\* record afterwards has closed_at set, a recomputed status 'closed' and fill
\* bases that sum to 0, also when another fill was appended between the
\* opening of the dialog and its submission.
C25_closeAppends ==
    /\ fm'.fills # fm.fills
    /\ \E t \in BagToSet(tasks) : t.k = "close" /\ CopiesIn(t, tasks') < CopiesIn(t, tasks)
C25_closed ==
    /\ jsTruthyTime(fm'.closed_at)
    /\ computeMetrics(fm', now).m.status = "closed"
    /\ positionOf(fm'.fills.items) = Zero
C25_CloseFlattens == [][C25_closeAppends => C25_closed]_vars

\* C26 (as claimed): the promise of pickFromModal is resolved at most once,
\* for every ordering of the close event, its timer and the choose callback;
\* once it is resolved and an item has been chosen its value is that item,
\* and its value is null only when the picker was closed and nothing chosen.
C26_chosen == { i \in 1..Len(pick.events) : pick.events[i] \in ItemSamples }
C26_resolved == pick.value # "pending"
C26_ResolvesToChoice ==
    /\ pick.resolves <= 1
    /\ (C26_resolved /\ C26_chosen # {}) =>
          pick.value = pick.events[CHOOSE i \in C26_chosen : \A j \in C26_chosen : i <= j]
    /\ pick.value = "null" => (C26_chosen = {} /\ \E i \in 1..Len(pick.events) : pick.events[i] = "close")

\* C26 (amended): resolve is called at most once, and the promise's value is
\* fixed by the first event that is a timer or a choice: the item when a
\* choice comes before any timer of a close event has run, null when such a
\* timer runs before any choice; a later event never changes it. Once the
\* picker is closed the promise is resolved in the end.
C26_settling == { i \in 1..Len(pick.events) : pick.events[i] # "close" }
C26_first == pick.events[CHOOSE i \in C26_settling : \A j \in C26_settling : i <= j]
C26_firstDecides ==
    /\ pick.resolves <= 1
    /\ pick.resolves = 1 <=> C26_resolved
    /\ C26_resolved <=> C26_settling # {}
    /\ C26_resolved => pick.value = (IF C26_first = "timer" THEN "null" ELSE C26_first)
C26_ResolvesOnce ==
    /\ []C26_firstDecides
    /\ (pick.k = "picker" /\ ~pick.open) ~> C26_resolved

\* an item was picked from the list: the picker closed, the choose callback
\* ran, then the timer of the close event, and the promise holds the item
C26_Witness ==
    /\ pick.events = << "close", "T-1", "timer" >>
    /\ pick.value = "T-1" /\ pick.resolves = 1 /\ pick.timers = 0

====
